---- MODULE Spec2Model ----
(***************************************************************************)
(* GST-based dynamic pricing simulator (src/8.py).                         *)
(*                                                                         *)
(* The script is re-executed from top to bottom on every interaction of    *)
(* the session.  The model has one action per kind of interaction: the     *)
(* first run of a session, a rerun caused by changing one sidebar widget,  *)
(* and a rerun caused by pressing "Save Recommendation".  Each action      *)
(* models the whole script run.                                            *)
(*                                                                         *)
(* Python floats are IEEE-754 binary64 numbers.  They are modelled bit for *)
(* bit: a float is a sign, a 53-bit significand and an exponent, and every *)
(* arithmetic operation computes the exact result and rounds it to nearest *)
(* (ties to even).  Significands do not fit TLC's 32-bit integers, so they *)
(* are kept as little-endian sequences of 15-bit limbs.  The exponent      *)
(* range is not modelled: with competitor prices up to 1e18 no value of    *)
(* the script overflows or becomes subnormal.                              *)
(***************************************************************************)
EXTENDS Integers, Sequences, FiniteSets, TLC

(***************************************************************************)
(* Natural numbers of arbitrary size                                       *)
(***************************************************************************)
LimbBits == 15
Base == 2^LimbBits

Min(x, y) == IF x < y THEN x ELSE y
Max(x, y) == IF x > y THEN x ELSE y

Zeros(n) == [i \in 1..n |-> 0]

\* Limb i of a, zero above the top limb
Limb(a, i) == IF i <= Len(a) THEN a[i] ELSE 0

\* a without its leading zero limbs
RECURSIVE BigNorm(_)
BigNorm(a) ==
    IF a = <<>> THEN <<>>
    ELSE IF a[Len(a)] = 0 THEN BigNorm(SubSeq(a, 1, Len(a) - 1))
    ELSE a

\* n in 0 .. 2^31 - 1
BigFromInt(n) == BigNorm(<<n % Base, (n \div Base) % Base, n \div (Base * Base)>>)

\* a + b + c, limb by limb from the low end; acc holds the limbs computed
\* so far and c is the carry into the next one.
RECURSIVE BigAddR(_, _, _, _)
BigAddR(a, b, c, acc) ==
    LET i == Len(acc) + 1
    IN  IF i > Len(a) /\ i > Len(b) THEN (IF c = 0 THEN acc ELSE Append(acc, c))
        ELSE BigAddR(a, b, (Limb(a, i) + Limb(b, i) + c) \div Base,
                     Append(acc, (Limb(a, i) + Limb(b, i) + c) % Base))

BigAdd(a, b) == BigAddR(a, b, 0, <<>>)

\* a - b - br, limb by limb from the low end; br is the borrow.
RECURSIVE BigSubR(_, _, _, _)
BigSubR(a, b, br, acc) ==
    LET i == Len(acc) + 1
    IN  IF i > Len(a) THEN acc
        ELSE BigSubR(a, b, IF a[i] - Limb(b, i) - br < 0 THEN 1 ELSE 0,
                     Append(acc, (a[i] - Limb(b, i) - br + Base) % Base))

\* a - b, for a >= b
BigSub(a, b) == BigNorm(BigSubR(a, b, 0, <<>>))

\* The top limb in which a and b differ is limb i or a lower one.
RECURSIVE BigCmpAt(_, _, _)
BigCmpAt(a, b, i) ==
    IF i = 0 THEN 0
    ELSE IF a[i] # b[i] THEN (IF a[i] < b[i] THEN -1 ELSE 1)
    ELSE BigCmpAt(a, b, i - 1)

\* -1, 0 or 1 as a < b, a = b or a > b
BigCmp(a, b) ==
    IF Len(a) # Len(b) THEN (IF Len(a) < Len(b) THEN -1 ELSE 1)
    ELSE BigCmpAt(a, b, Len(a))

\* a * k + c, limb by limb from the low end
RECURSIVE BigMulSmallR(_, _, _, _)
BigMulSmallR(a, k, c, acc) ==
    LET i == Len(acc) + 1
    IN  IF i > Len(a) THEN (IF c = 0 THEN acc ELSE Append(acc, c))
        ELSE BigMulSmallR(a, k, (a[i] * k + c) \div Base,
                          Append(acc, (a[i] * k + c) % Base))

\* a * k, for k in 0 .. Base
BigMulSmall(a, k) == IF k = 0 \/ a = <<>> THEN <<>> ELSE BigMulSmallR(a, k, 0, <<>>)

RECURSIVE BigMul(_, _)
BigMul(a, b) ==
    IF b = <<>> \/ a = <<>> THEN <<>>
    ELSE LET r == BigMul(a, Tail(b))
         IN  IF r = <<>> THEN BigMulSmall(a, Head(b))
             ELSE IF Head(b) = 0 THEN <<0>> \o r
             ELSE BigAdd(BigMulSmall(a, Head(b)), <<0>> \o r)

\* a * 2^k
BigShl(a, k) ==
    IF a = <<>> THEN <<>>
    ELSE BigMulSmall(Zeros(k \div LimbBits) \o a, 2^(k % LimbBits))

\* a \div 2^k
BigShr(a, k) ==
    LET q == k \div LimbBits
        r == k % LimbBits
        t == IF q >= Len(a) THEN <<>> ELSE SubSeq(a, q + 1, Len(a))
    IN  IF r = 0 THEN t
        ELSE BigNorm([i \in 1..Len(t) |->
                        (t[i] \div 2^r) + (Limb(t, i + 1) % 2^r) * 2^(LimbBits - r)])

\* the low k bits of a are all zero
BigLowZero(a, k) ==
    LET q == k \div LimbBits
        r == k % LimbBits
    IN  /\ \A i \in 1..Min(q, Len(a)) : a[i] = 0
        /\ (r = 0 \/ Limb(a, q + 1) % 2^r = 0)

\* bit i (from 0) of a
BigBit(a, i) == (Limb(a, i \div LimbBits + 1) \div 2^(i % LimbBits)) % 2

BigOdd(a) == Limb(a, 1) % 2 = 1

BitLenSmall(x) == CHOOSE n \in 1..LimbBits : 2^(n - 1) <= x /\ x < 2^n

BigBitLen(a) ==
    IF a = <<>> THEN 0
    ELSE LimbBits * (Len(a) - 1) + BitLenSmall(a[Len(a)])

\* The quotient digit of R by b, at most q
RECURSIVE DivFix(_, _, _)
DivFix(R, b, q) ==
    IF BigCmp(BigMulSmall(b, q), R) > 0 THEN DivFix(R, b, q - 1) ELSE q

\* The two top limbs of the remainder R1 against a divisor of n limbs
TrialNum(R1, n) == IF Len(R1) > n THEN R1[n + 1] * Base + R1[n] ELSE Limb(R1, n)

\* The quotient takes the digit qd and the remainder gives up qd * b.
DivDigitWith(q, R1, b, qd) ==
    [q |-> <<qd>> \o q,
     r |-> IF qd = 0 THEN R1 ELSE BigSub(R1, BigMulSmall(b, qd))]

DivDigitOf(q, R1, b) ==
    DivDigitWith(q, R1, b,
                 DivFix(R1, b, Min(TrialNum(R1, Len(b)) \div b[Len(b)], Base - 1)))

\* One step of the long division: the remainder so far takes the limb x.
DivDigit(st, x, b) == DivDigitOf(st.q, BigNorm(<<x>> \o st.r), b)

\* Long division by limbs, from the top limb of a down; st holds the
\* quotient limbs computed so far and the remainder.  The top limb of b is at
\* least Base \div 2.
RECURSIVE BigDivR(_, _, _)
BigDivR(a, b, st) ==
    IF Len(a) = Len(st.q) THEN st
    ELSE BigDivR(a, b, DivDigit(st, a[Len(a) - Len(st.q)], b))

BigDivResult(st) == [q |-> BigNorm(st.q), exact |-> (st.r = <<>>)]

\* a and b are both multiplied by m, which brings the top limb of b to
\* Base \div 2 or more.
BigDivScaled(a, b, m) ==
    BigDivResult(BigDivR(BigMulSmall(a, m), BigMulSmall(b, m),
                         [q |-> <<>>, r |-> <<>>]))

\* [q |-> a \div b, exact |-> (a % b = 0)], for b > 0
BigDivMod(a, b) == BigDivScaled(a, b, 2^(LimbBits - BitLenSmall(b[Len(b)])))

(***************************************************************************)
(* IEEE-754 binary64 arithmetic, round to nearest, ties to even            *)
(***************************************************************************)
Precision == 53

\* The value of [sgn, man, exp] is (-1)^sgn * man * 2^exp; man is zero (<<>>)
\* or has exactly Precision bits.
FZero == [sgn |-> 0, man |-> <<>>, exp |-> 0]

\* The rounded significand q1 has Precision bits, or is 2^Precision.
FRoundCarry(s, q1, e) ==
    IF BigBitLen(q1) > Precision
    THEN [sgn |-> s, man |-> BigShr(q1, 1), exp |-> e + 1]
    ELSE [sgn |-> s, man |-> q1, exp |-> e]

\* q is N without its k low bits: it goes up by one when the bits dropped
\* are above one half, or are one half and q is odd.
FRoundUp(s, N, e, sticky, k, q) ==
    FRoundCarry(s,
                IF /\ BigBit(N, k - 1) = 1
                   /\ (sticky \/ ~BigLowZero(N, k - 1) \/ BigOdd(q))
                THEN BigAdd(q, <<1>>) ELSE q,
                e + k)

\* N has L bits.
FRoundLen(s, N, e, sticky, L) ==
    IF L <= Precision
    THEN [sgn |-> s, man |-> BigShl(N, Precision - L), exp |-> e - (Precision - L)]
    ELSE FRoundUp(s, N, e, sticky, L - Precision, BigShr(N, L - Precision))

\* (-1)^s * N * 2^e rounded to a float; sticky says that the exact value is
\* a little above N * 2^e (by less than 2^e).
FRoundS(s, N, e, sticky) ==
    IF N = <<>> THEN FZero ELSE FRoundLen(s, N, e, sticky, BigBitLen(N))

FRound(s, N, e) == FRoundS(s, N, e, FALSE)

\* The number of zero limbs at the low end of a, for a # 0
LowZeroLimbs(a) == (CHOOSE i \in 1..Len(a) : a[i] # 0 /\ \A j \in 1..(i - 1) : a[j] = 0) - 1

\* The quotient d of the division, with its remainder as the sticky bit
FRoundQuot(s, d, e) == FRoundS(s, d.q, e, ~d.exact)

\* N is shifted left by t bits, which gives a quotient of Precision + 2 bits
\* or more.
FRatioShifted(s, N, D, e, t) == FRoundQuot(s, BigDivMod(BigShl(N, t), D), e - t)

FRatio(s, N, D, e) ==
    FRatioShifted(s, N, D, e, Max(0, Precision + 3 + BigBitLen(D) - BigBitLen(N)))

\* (-1)^s * (N / D) * 2^e rounded to a float, for D > 0.  The zero limbs at
\* the low end of N and D go into the exponent.
FRoundRatio(s, N, D, e) ==
    IF N = <<>> THEN FZero
    ELSE FRatio(s, SubSeq(N, LowZeroLimbs(N) + 1, Len(N)),
                SubSeq(D, LowZeroLimbs(D) + 1, Len(D)),
                e + LimbBits * (LowZeroLimbs(N) - LowZeroLimbs(D)))

\* float(n) for an int n, |n| < 2^31
FromInt(n) == FRound(IF n < 0 THEN 1 ELSE 0, BigFromInt(IF n < 0 THEN -n ELSE n), 0)

FNeg(a) == IF a.man = <<>> THEN a ELSE [a EXCEPT !.sgn = 1 - a.sgn]

FMul(a, b) ==
    IF a.man = <<>> \/ b.man = <<>> THEN FZero
    ELSE FRound((a.sgn + b.sgn) % 2, BigMul(a.man, b.man), a.exp + b.exp)

\* a / b, for b # 0
FDiv(a, b) ==
    IF a.man = <<>> THEN FZero
    ELSE FRoundRatio((a.sgn + b.sgn) % 2, a.man, b.man, a.exp - b.exp)

\* The sign and the magnitude of (-1)^sa * A + (-1)^sb * B
FAddMag(sa, A, sb, B) ==
    IF sa = sb THEN [s |-> sa, N |-> BigAdd(A, B)]
    ELSE IF BigCmp(A, B) >= 0 THEN [s |-> sa, N |-> BigSub(A, B)]
    ELSE [s |-> sb, N |-> BigSub(B, A)]

FRoundMag(m, e) == FRound(m.s, m.N, e)

\* a + b with both significands brought to the exponent e
FAddAt(a, b, e) ==
    FRoundMag(FAddMag(a.sgn, BigShl(a.man, a.exp - e),
                      b.sgn, BigShl(b.man, b.exp - e)), e)

FAdd(a, b) ==
    IF a.man = <<>> THEN b
    ELSE IF b.man = <<>> THEN a
    ELSE FAddAt(a, b, Min(a.exp, b.exp))

FSub(a, b) == FAdd(a, FNeg(b))

\* |x| < |y|
FMagLt(x, y) ==
    IF y.man = <<>> THEN FALSE
    ELSE IF x.man = <<>> THEN TRUE
    ELSE IF x.exp # y.exp THEN x.exp < y.exp
    ELSE BigCmp(x.man, y.man) < 0

\* a < b
FLt(a, b) ==
    IF a.sgn # b.sgn THEN a.sgn = 1
    ELSE IF a.sgn = 0 THEN FMagLt(a, b)
    ELSE FMagLt(b, a)

FLe(a, b) == a = b \/ FLt(a, b)

\* The float nearest to the decimal n / 10^k: a float literal of the source
\* or a number typed into a number_input (n < 2^31, 10^k < 2^31).
Dec(n, k) == FDiv(FromInt(n), FromInt(10^k))

\* N \div 2^k rounded to the nearest integer, ties to even; q is N \div 2^k.
RoundShr(N, k, q) ==
    IF BigBit(N, k - 1) = 1 /\ (~BigLowZero(N, k - 1) \/ BigOdd(q))
    THEN BigAdd(q, <<1>>) ELSE q

\* N * 2^e rounded to the nearest integer, ties to even
RoundInt(N, e) == IF e >= 0 THEN BigShl(N, e) ELSE RoundShr(N, -e, BigShr(N, -e))

\* round(a, 2): a rounded to two decimals (ties on the exact binary value go
\* to the even digit), then the float nearest to that decimal.
PyRound2(a) ==
    IF a.man = <<>> THEN a
    ELSE FRoundRatio(a.sgn, RoundInt(BigMulSmall(a.man, 100), a.exp), <<100>>, 0)

(***************************************************************************)
(* Bounds of the model                                                     *)
(***************************************************************************)
\* The number of saves of a session that the model follows.
MaxSaves == 2

(***************************************************************************)
(* The script's constants                                                  *)
(***************************************************************************)
One == FromInt(1)
Hundred == FromInt(100)
PointTwo == Dec(2, 1)          \* 0.2
PointOneFive == Dec(15, 2)     \* 0.15
OnePointOne == Dec(11, 1)      \* 1.1

\* The keys of gst_rates, in the order of the dict (the rupee sign of the two
\* apparel keys is left out).
Categories ==
    <<"Essentials", "Food Items", "Apparel under 1,000", "Apparel above 1,000",
      "Electronics", "Luxury Goods">>

gst_rates ==
    [c \in {Categories[i] : i \in 1..Len(Categories)} |->
        CASE c = "Essentials" -> Dec(0, 2)
          [] c = "Food Items" -> Dec(5, 2)
          [] c = "Apparel under 1,000" -> Dec(5, 2)
          [] c = "Apparel above 1,000" -> Dec(12, 2)
          [] c = "Electronics" -> Dec(18, 2)
          [] c = "Luxury Goods" -> Dec(28, 2)]

Scenarios == {"Custom", "High Demand, Low Stock", "Clearance Sale", "Festive Boost"}

\* The values the widgets have when they are first rendered.
DefaultProductName == ""
DefaultCategory == Categories[1]
DefaultCompetitorPrice == Dec(1000, 1)
DefaultScenario == "Custom"
DefaultDemand == 50
DefaultStock == 50
DefaultSeasonal == FALSE
DefaultDiscount == 0
DefaultCostPrice == Dec(500, 1)

\* demand, stock, seasonal, discount of a run: the preset of the scenario, or
\* the sliders and the checkbox of the "Custom" scenario.
ScenarioInputs(scen, sl_demand, sl_stock, chk_seasonal, sl_discount) ==
    IF scen = "High Demand, Low Stock"
    THEN [demand |-> 90, stock |-> 20, seasonal |-> FALSE, discount |-> 0]
    ELSE IF scen = "Clearance Sale"
    THEN [demand |-> 40, stock |-> 80, seasonal |-> FALSE, discount |-> 30]
    ELSE IF scen = "Festive Boost"
    THEN [demand |-> 70, stock |-> 50, seasonal |-> TRUE, discount |-> 10]
    ELSE [demand |-> sl_demand, stock |-> sl_stock, seasonal |-> chk_seasonal,
          discount |-> sl_discount]

(***************************************************************************)
(* The pricing calculation                                                 *)
(***************************************************************************)
\* Variant: demand moves the price by up to 10% instead of 20%.
DemandFactorTenth(d) == FAdd(One, FMul(FDiv(FromInt(d), Hundred), Dec(1, 1)))

DemandFactor(d) == FAdd(One, FMul(FDiv(FromInt(d), Hundred), PointTwo))

\* Variant: stock raises the price instead of lowering it.
StockFactorRising(s) == FAdd(One, FMul(FDiv(FromInt(s), Hundred), PointOneFive))

StockFactor(s) == FSub(One, FMul(FDiv(FromInt(s), Hundred), PointOneFive))

SeasonalFactor(seas) == IF seas THEN OnePointOne ELSE One

\* Variant: no category is exempt; Essentials are taxed like Food Items.
GstRateNoExempt(cat) ==
    IF cat = "Essentials" THEN gst_rates["Food Items"] ELSE gst_rates[cat]

GstRate(cat) == gst_rates[cat]

PreGstPrice(base, df, sf, seasf) == FMul(FMul(FMul(base, df), sf), seasf)

\* Variant: a discount of at least 5% is always given.
DiscountAmountFloor(pre, disc) == FMul(pre, FDiv(FromInt(Max(disc, 5)), Hundred))

DiscountAmount(pre, disc) == FMul(pre, FDiv(FromInt(disc), Hundred))

PriceAfterDiscount(pre, da) == FSub(pre, da)

GstAmount(pad, rate) == FMul(pad, rate)

FinalPrice(pad, ga) == FAdd(pad, ga)

\* Variant: the operands of the subtraction are exchanged.
ProfitReversed(fp, cost) == FSub(cost, fp)

Profit(fp, cost) == FSub(fp, cost)

\* Variant: the guard tests final_price > 1.
MarginBranchAboveOne(fp) == IF FLt(One, fp) THEN "divide" ELSE "zero"

\* The branch of the conditional expression that computes the margin.
MarginBranch(fp) == IF FLt(FZero, fp) THEN "divide" ELSE "zero"

\* Variant: a loss is reported as a margin of 0.
ProfitMarginClamped(pr, fp) ==
    IF MarginBranch(fp) = "divide" /\ FLt(FZero, pr)
    THEN FMul(FDiv(pr, fp), Hundred) ELSE FZero

ProfitMargin(pr, fp) ==
    IF MarginBranch(fp) = "divide" THEN FMul(FDiv(pr, fp), Hundred) ELSE FZero

(***************************************************************************)
(* The session history                                                     *)
(***************************************************************************)
\* Variant: the history is set to the empty list on every run.
SessionHistoryReset(has, hist) == <<>>

\* st.session_state.history after the test at the top of the script
SessionHistory(has, hist) == IF ~has THEN <<>> ELSE hist

HistoryEntry(pname, cat, fp, pm) ==
    [Product |-> pname, Category |-> cat,
     FinalPrice |-> PyRound2(fp), ProfitMargin |-> PyRound2(pm)]

\* Variant: the entry is put in front of the list.
SaveToHistoryFront(hist, entry) == <<entry>> \o hist

\* Variant: the entry is appended twice.
SaveToHistoryTwice(hist, entry) == Append(Append(hist, entry), entry)

SaveToHistory(hist, entry) == Append(hist, entry)

\* The history table: rendered only when the history is not empty.
HistoryTable(hist) ==
    IF hist # <<>> THEN [shown |-> TRUE, rows |-> hist]
    ELSE [shown |-> FALSE, rows |-> <<>>]

(***************************************************************************)
(* State                                                                   *)
(***************************************************************************)
VARIABLES
    ran,                \* the script has run at least once in this session
    has_history,        \* "history" in st.session_state
    history,            \* st.session_state.history
    product_name, category, competitor_price, scenario,
    demand, stock, seasonal, discount, cost_price,
    demand_factor, stock_factor, seasonal_factor, gst_rate,
    pre_gst_price, discount_amount, price_after_discount, gst_amount,
    final_price, profit, profit_margin,
    margin_branch,      \* the branch taken by the margin's conditional
    save_pressed,       \* what st.sidebar.button returned in the last run
    history_table,      \* the history table as rendered by the last run
    pressed_log         \* auxiliary: the entries of the runs in which Save
                        \* Recommendation was pressed, in the order of the runs

inputs ==
    <<product_name, category, competitor_price, scenario, demand, stock,
      seasonal, discount, cost_price>>

locals ==
    <<demand_factor, stock_factor, seasonal_factor, gst_rate, pre_gst_price,
      discount_amount, price_after_discount, gst_amount, final_price, profit,
      profit_margin, margin_branch>>

vars ==
    <<ran, has_history, history, inputs, locals, save_pressed, history_table,
      pressed_log>>

\* A session before the first run of the script: the widgets hold their
\* defaults and nothing has been computed.
Init ==
    /\ ran = FALSE
    /\ has_history = FALSE
    /\ history = <<>>
    /\ product_name = DefaultProductName
    /\ category = DefaultCategory
    /\ competitor_price = DefaultCompetitorPrice
    /\ scenario = DefaultScenario
    /\ demand = DefaultDemand
    /\ stock = DefaultStock
    /\ seasonal = DefaultSeasonal
    /\ discount = DefaultDiscount
    /\ cost_price = DefaultCostPrice
    /\ demand_factor = FZero
    /\ stock_factor = FZero
    /\ seasonal_factor = FZero
    /\ gst_rate = FZero
    /\ pre_gst_price = FZero
    /\ discount_amount = FZero
    /\ price_after_discount = FZero
    /\ gst_amount = FZero
    /\ final_price = FZero
    /\ profit = FZero
    /\ profit_margin = FZero
    /\ margin_branch = "none"
    /\ save_pressed = FALSE
    /\ history_table = [shown |-> FALSE, rows |-> <<>>]
    /\ pressed_log = <<>>

(***************************************************************************)
(* One run of the script, from the widget values of the run                *)
(***************************************************************************)
\* The end of the run: the button, the append and the history table.
SaveAndRender(session, entry, pressed) ==
    /\ save_pressed' = pressed
    /\ history' = IF pressed THEN SaveToHistory(session, entry) ELSE session
    /\ history_table' = HistoryTable(history')
    /\ pressed_log' = IF pressed THEN Append(pressed_log, entry) ELSE pressed_log

RunScript(pname, cat, cprice, scen, sl_demand, sl_stock, chk_seasonal, sl_discount, cost, pressed) ==
    LET sc == ScenarioInputs(scen, sl_demand, sl_stock, chk_seasonal, sl_discount)
    IN  /\ ran' = TRUE
        /\ has_history' = TRUE
        /\ product_name' = pname
        /\ category' = cat
        /\ competitor_price' = cprice
        /\ scenario' = scen
        /\ demand' = sc.demand
        /\ stock' = sc.stock
        /\ seasonal' = sc.seasonal
        /\ discount' = sc.discount
        /\ cost_price' = cost
        /\ demand_factor' = DemandFactor(demand')
        /\ stock_factor' = StockFactor(stock')
        /\ seasonal_factor' = SeasonalFactor(seasonal')
        /\ gst_rate' = GstRate(category')
        /\ pre_gst_price' = PreGstPrice(competitor_price', demand_factor',
                                        stock_factor', seasonal_factor')
        /\ discount_amount' = DiscountAmount(pre_gst_price', discount')
        /\ price_after_discount' = PriceAfterDiscount(pre_gst_price', discount_amount')
        /\ gst_amount' = GstAmount(price_after_discount', gst_rate')
        /\ final_price' = FinalPrice(price_after_discount', gst_amount')
        /\ profit' = Profit(final_price', cost_price')
        /\ profit_margin' = ProfitMargin(profit', final_price')
        /\ margin_branch' = MarginBranch(final_price')
        /\ SaveAndRender(SessionHistory(has_history, history),
                         HistoryEntry(pname, cat, final_price', profit_margin'),
                         pressed)

(***************************************************************************)
(* Interactions                                                            *)
(***************************************************************************)
\* The page is opened: the first run, with every widget at its default.
FirstRun ==
    /\ ~ran
    /\ RunScript(product_name, category, competitor_price, scenario, demand,
                 stock, seasonal, discount, cost_price, FALSE)

SetProductName(S) ==
    /\ ran
    /\ \E v \in S \ {product_name} :
          RunScript(v, category, competitor_price, scenario, demand, stock,
                    seasonal, discount, cost_price, FALSE)

SetCategory(S) ==
    /\ ran
    /\ \E v \in S \ {category} :
          RunScript(product_name, v, competitor_price, scenario, demand, stock,
                    seasonal, discount, cost_price, FALSE)

SetCompetitorPrice(S) ==
    /\ ran
    /\ \E v \in S \ {competitor_price} :
          RunScript(product_name, category, v, scenario, demand, stock,
                    seasonal, discount, cost_price, FALSE)

\* The sliders and the checkbox exist only under "Custom"; they come back
\* with their defaults when "Custom" is chosen again.
SetScenario(S) ==
    /\ ran
    /\ \E v \in S \ {scenario} :
          RunScript(product_name, category, competitor_price, v, DefaultDemand,
                    DefaultStock, DefaultSeasonal, DefaultDiscount, cost_price,
                    FALSE)

SetDemand(S) ==
    /\ ran
    /\ scenario = "Custom"
    /\ \E v \in S \ {demand} :
          RunScript(product_name, category, competitor_price, scenario, v, stock,
                    seasonal, discount, cost_price, FALSE)

SetStock(S) ==
    /\ ran
    /\ scenario = "Custom"
    /\ \E v \in S \ {stock} :
          RunScript(product_name, category, competitor_price, scenario, demand, v,
                    seasonal, discount, cost_price, FALSE)

SetSeasonal ==
    /\ ran
    /\ scenario = "Custom"
    /\ RunScript(product_name, category, competitor_price, scenario, demand,
                 stock, ~seasonal, discount, cost_price, FALSE)

SetDiscount(S) ==
    /\ ran
    /\ scenario = "Custom"
    /\ \E v \in S \ {discount} :
          RunScript(product_name, category, competitor_price, scenario, demand,
                    stock, seasonal, v, cost_price, FALSE)

SetCostPrice(S) ==
    /\ ran
    /\ \E v \in S \ {cost_price} :
          RunScript(product_name, category, competitor_price, scenario, demand,
                    stock, seasonal, discount, v, FALSE)

\* "Save Recommendation" is pressed.  A product name still being typed is
\* committed by the click, so the run may see a new product name.
SaveRecommendation(S) ==
    /\ ran
    /\ Len(history) < MaxSaves
    /\ \E v \in S \cup {product_name} :
          RunScript(v, category, competitor_price, scenario, demand, stock,
                    seasonal, discount, cost_price, TRUE)

(***************************************************************************)
(* Specifications                                                          *)
(***************************************************************************)
\* The values the user gives the widgets.
ProductNames == {"", "Widget"}
LedgerCategories == {"Essentials", "Electronics"}
LedgerScenarios == {"Custom", "Clearance Sale"}

AllCategories == {Categories[i] : i \in 1..Len(Categories)}
CompetitorPrices ==
    {FromInt(1), FromInt(100), FromInt(200), FMul(FromInt(10^9), FromInt(10^9))}
CostPrices == {FromInt(50), FromInt(100)}
Demands == {0, 50}
Stocks == {50, 100}
Discounts == {0, 50}

\* A session with its history: the product, the category and the scenario
\* change, and recommendations are saved.
Next ==
    \/ FirstRun
    \/ SetProductName(ProductNames)
    \/ SetCategory(LedgerCategories)
    \/ SetScenario(LedgerScenarios)
    \/ SaveRecommendation(ProductNames)

Spec == Init /\ [][Next]_vars

\* The pricing calculation over the inputs of the sidebar; nothing is saved.
NextPricing ==
    \/ FirstRun
    \/ SetCategory(AllCategories)
    \/ SetCompetitorPrice(CompetitorPrices)
    \/ SetScenario(Scenarios)
    \/ SetDemand(Demands)
    \/ SetStock(Stocks)
    \/ SetSeasonal
    \/ SetDiscount(Discounts)
    \/ SetCostPrice(CostPrices)

SpecPricing == Init /\ [][NextPricing]_vars

\* The last two statements of the calculation (profit and profit_margin) on
\* their own, from any final price and cost price: the conditional
\* expression is applied to final prices that are negative, zero and positive.
MarginFinalPrices ==
    {FNeg(FromInt(100)), FNeg(FromInt(1)), FNeg(Dec(5, 1)), FZero, Dec(425, 3),
     FromInt(1), FromInt(50), Dec(120065, 3), Dec(133056, 3),
     FMul(FromInt(10^9), FromInt(10^9))}
MarginCostPrices ==
    {FromInt(0), FromInt(1), FromInt(50), FromInt(100), FromInt(200), Dec(1205, 1)}

InitMargin ==
    /\ ran = FALSE
    /\ has_history = FALSE
    /\ history = <<>>
    /\ product_name = DefaultProductName
    /\ category = DefaultCategory
    /\ competitor_price = DefaultCompetitorPrice
    /\ scenario = DefaultScenario
    /\ demand = DefaultDemand
    /\ stock = DefaultStock
    /\ seasonal = DefaultSeasonal
    /\ discount = DefaultDiscount
    /\ cost_price \in MarginCostPrices
    /\ demand_factor = FZero
    /\ stock_factor = FZero
    /\ seasonal_factor = FZero
    /\ gst_rate = FZero
    /\ pre_gst_price = FZero
    /\ discount_amount = FZero
    /\ price_after_discount = FZero
    /\ gst_amount = FZero
    /\ final_price \in MarginFinalPrices
    /\ profit = FZero
    /\ profit_margin = FZero
    /\ margin_branch = "none"
    /\ save_pressed = FALSE
    /\ history_table = [shown |-> FALSE, rows |-> <<>>]
    /\ pressed_log = <<>>

ComputeMargin ==
    /\ margin_branch = "none"
    /\ profit' = Profit(final_price, cost_price)
    /\ profit_margin' = ProfitMargin(profit', final_price)
    /\ margin_branch' = MarginBranch(final_price)
    /\ UNCHANGED <<ran, has_history, history, inputs, demand_factor,
                   stock_factor, seasonal_factor, gst_rate, pre_gst_price,
                   discount_amount, price_after_discount, gst_amount,
                   final_price, save_pressed, history_table, pressed_log>>

NextMargin == ComputeMargin

SpecMargin == InitMargin /\ [][NextMargin]_vars

(***************************************************************************)
(* Properties of the pricing calculation (SpecPricing)                     *)
(***************************************************************************)
FAbs(a) == [a EXCEPT !.sgn = 0]

\* 1e-9, the tolerance within which two prices are taken as equal
Tolerance == Dec(1, 9)

Close(a, b) == FLe(FAbs(FSub(a, b)), Tolerance)

\* C1: after every run of the calculation the three identities hold between
\* the computed values: price_after_discount = pre_gst_price -
\* discount_amount, final_price = price_after_discount + gst_amount and
\* profit = final_price - cost_price (as float operations, with no error).
C1_Identities ==
    ran => /\ price_after_discount = FSub(pre_gst_price, discount_amount)
           /\ final_price = FAdd(price_after_discount, gst_amount)
           /\ profit = FSub(final_price, cost_price)

\* A run with a discount and a tax that are both positive.
C1_Witness ==
    /\ ran
    /\ discount = 50
    /\ category = "Electronics"
    /\ FLt(FZero, discount_amount)
    /\ FLt(FZero, gst_amount)
    /\ FLt(price_after_discount, pre_gst_price)
    /\ FLt(price_after_discount, final_price)

\* C7: a run with discount = 0 computes discount_amount = 0 and
\* price_after_discount = pre_gst_price.
C7_DiscountBoundary ==
    (ran /\ discount = 0) =>
        /\ discount_amount = FZero
        /\ price_after_discount = pre_gst_price

\* A run with discount = 0 on a price raised by demand and season.
C7_Witness ==
    /\ ran
    /\ discount = 0
    /\ demand = 50
    /\ seasonal
    /\ category = "Luxury Goods"
    /\ FLt(competitor_price, pre_gst_price)
    /\ price_after_discount = pre_gst_price

\* C8: a run whose category is "Essentials" computes gst_amount = 0 and
\* final_price = price_after_discount, whatever the demand, stock, seasonal
\* and discount values are.
C8_TaxBoundary ==
    (ran /\ category = "Essentials") =>
        /\ gst_amount = FZero
        /\ final_price = price_after_discount

\* An "Essentials" run with a discount, a seasonal boost, no demand and
\* full stock.
C8_Witness ==
    /\ ran
    /\ category = "Essentials"
    /\ discount = 50
    /\ seasonal
    /\ demand = 0
    /\ stock = 100
    /\ gst_amount = FZero
    /\ final_price = price_after_discount

\* The factors as the specification writes them: 1 + 0.2*demand/100 and
\* 1 - 0.15*stock/100, evaluated from left to right.
SpecDemandFactor(d) == FAdd(One, FDiv(FMul(PointTwo, FromInt(d)), Hundred))
SpecStockFactor(s) == FSub(One, FDiv(FMul(PointOneFive, FromInt(s)), Hundred))

\* competitorPrice=100, demand=50, stock=50, seasonal=false, discount=0,
\* Electronics, costPrice=50
Scenario1 ==
    /\ ran
    /\ competitor_price = FromInt(100)
    /\ demand = 50
    /\ stock = 50
    /\ ~seasonal
    /\ discount = 0
    /\ category = "Electronics"
    /\ cost_price = FromInt(50)

\* The Clearance Sale preset with Essentials, competitorPrice=200,
\* costPrice=100
Scenario2 ==
    /\ ran
    /\ scenario = "Clearance Sale"
    /\ category = "Essentials"
    /\ competitor_price = FromInt(200)
    /\ cost_price = FromInt(100)

\* The steps of the algorithm, in its fixed order, on the values of one run.
AlgorithmSteps ==
    /\ Close(demand_factor, SpecDemandFactor(demand))
    /\ Close(stock_factor, SpecStockFactor(stock))
    /\ seasonal_factor = (IF seasonal THEN OnePointOne ELSE One)
    /\ pre_gst_price =
          FMul(FMul(FMul(competitor_price, demand_factor), stock_factor),
               seasonal_factor)
    /\ discount_amount = FMul(pre_gst_price, FDiv(FromInt(discount), Hundred))
    /\ price_after_discount = FSub(pre_gst_price, discount_amount)
    /\ gst_amount = FMul(price_after_discount, gst_rates[category])
    /\ final_price = FAdd(price_after_discount, gst_amount)
    /\ profit = FSub(final_price, cost_price)

\* C6 (as amended): every run computes the breakdown by the steps of the
\* algorithm in their fixed order, and in the two scenarios the computed
\* values equal the stated decimals within 1e-9: 101.75, 18.315, 120.065,
\* 70.065 in the first; 190.08, 57.024, 133.056, 0, 133.056, 33.056 (with the
\* preset's demand=40, stock=80, seasonal=false, discount=30) in the second.
C6_Breakdown ==
    ran =>
        /\ AlgorithmSteps
        /\ Scenario1 =>
              /\ Close(pre_gst_price, Dec(10175, 2))
              /\ Close(gst_amount, Dec(18315, 3))
              /\ Close(final_price, Dec(120065, 3))
              /\ Close(profit, Dec(70065, 3))
        /\ Scenario2 =>
              /\ demand = 40 /\ stock = 80 /\ ~seasonal /\ discount = 30
              /\ Close(pre_gst_price, Dec(19008, 2))
              /\ Close(discount_amount, Dec(57024, 3))
              /\ Close(price_after_discount, Dec(133056, 3))
              /\ gst_amount = FZero
              /\ Close(final_price, Dec(133056, 3))
              /\ Close(profit, Dec(33056, 3))

\* The second scenario has been computed; its profit is within 1e-9 of
\* 33.056 and is not the float 33.056.
C6_Witness ==
    /\ Scenario2
    /\ discount = 30
    /\ Close(profit, Dec(33056, 3))
    /\ profit # Dec(33056, 3)

\* C6 (as stated): in the two scenarios the computed values are the stated
\* decimals.
C6_Original ==
    ran =>
        /\ Scenario1 =>
              /\ pre_gst_price = Dec(10175, 2)
              /\ gst_amount = Dec(18315, 3)
              /\ final_price = Dec(120065, 3)
              /\ profit = Dec(70065, 3)
        /\ Scenario2 =>
              /\ pre_gst_price = Dec(19008, 2)
              /\ discount_amount = Dec(57024, 3)
              /\ price_after_discount = Dec(133056, 3)
              /\ gst_amount = FZero
              /\ final_price = Dec(133056, 3)
              /\ profit = Dec(33056, 3)

\* C10 (as amended): after every run final_price is strictly positive, the
\* margin's conditional took its dividing branch, profit_margin is the
\* computed quotient, it is at most 100, and it is strictly below 100
\* whenever the computed profit is below final_price.
C10_PositivePrice ==
    ran =>
        /\ FLt(FZero, final_price)
        /\ margin_branch = "divide"
        /\ profit_margin = FMul(FDiv(profit, final_price), Hundred)
        /\ FLe(profit_margin, Hundred)
        /\ FLt(profit, final_price) => FLt(profit_margin, Hundred)

\* The lowest final price of the model (competitor price 1, full stock, 50%
\* discount, no tax) with a cost above it: the margin is computed, and negative.
C10_Witness ==
    /\ ran
    /\ competitor_price = FromInt(1)
    /\ stock = 100
    /\ demand = 0
    /\ discount = 50
    /\ category = "Essentials"
    /\ margin_branch = "divide"
    /\ FLt(final_price, One)
    /\ FLt(profit_margin, FZero)

\* C10 (as stated): final_price is strictly positive, the dividing branch is
\* taken, and profit_margin is strictly below 100 when cost_price > 0.
C10_Original ==
    ran =>
        /\ FLt(FZero, final_price)
        /\ margin_branch = "divide"
        /\ FLt(FZero, cost_price) => FLt(profit_margin, Hundred)

\* A step that leaves the competitor price and two of demand, stock and
\* seasonal as they are.
SameBase == ran /\ competitor_price' = competitor_price
OnlyDemand == SameBase /\ stock' = stock /\ seasonal' = seasonal
OnlyStock == SameBase /\ demand' = demand /\ seasonal' = seasonal
OnlySeasonal == SameBase /\ demand' = demand /\ stock' = stock

\* Over the whole range of the sliders the demand factor does not fall, and
\* the stock factor does not rise, from one percent to the next; the
\* seasonal factor is not below the factor without the season.
FactorsMonotone ==
    /\ \A d \in 0..99 : FLe(DemandFactor(d), DemandFactor(d + 1))
    /\ \A t \in 0..99 : FLe(StockFactor(t + 1), StockFactor(t))
    /\ FLe(SeasonalFactor(FALSE), SeasonalFactor(TRUE))

\* C4: between two runs that differ in demand only, the higher demand gives
\* a pre_gst_price that is not lower; in stock only, the higher stock gives
\* a pre_gst_price that is not higher; in seasonal only, the seasonal run
\* gives a pre_gst_price that is not lower.  The factors themselves are
\* monotone over the whole range of the sliders.
C4_Monotone ==
    [][ /\ FactorsMonotone
        /\ (OnlyDemand /\ demand <= demand') => FLe(pre_gst_price, pre_gst_price')
        /\ (OnlyDemand /\ demand' <= demand) => FLe(pre_gst_price', pre_gst_price)
        /\ (OnlyStock /\ stock <= stock') => FLe(pre_gst_price', pre_gst_price)
        /\ (OnlyStock /\ stock' <= stock) => FLe(pre_gst_price, pre_gst_price')
        /\ (OnlySeasonal /\ ~seasonal /\ seasonal') =>
              FLe(pre_gst_price, pre_gst_price')
        /\ (OnlySeasonal /\ seasonal /\ ~seasonal') =>
              FLe(pre_gst_price', pre_gst_price)
      ]_vars

\* A run under "Custom" with demand at 50, full stock and the seasonal
\* boost: its price was reached from demand 0 by raising demand, raising
\* stock and switching the boost on, one at a time.
C4_Witness ==
    /\ ran
    /\ scenario = "Custom"
    /\ competitor_price = FromInt(100)
    /\ demand = 50
    /\ stock = 100
    /\ seasonal
    /\ FLt(competitor_price, pre_gst_price)

(***************************************************************************)
(* Properties of the session history (Spec)                                *)
(***************************************************************************)
IsPrefix(s, t) == Len(s) <= Len(t) /\ SubSeq(t, 1, Len(s)) = s

\* C2: after any sequence of runs, the history that the history table reads
\* is exactly the sequence of the entries of the runs in which Save
\* Recommendation was pressed, in the order of those runs: every saved entry
\* once, as many entries as saves, equal entries kept apart.
C2_AppendOrder ==
    /\ history = pressed_log
    /\ Len(history) = Len(pressed_log)
    /\ ran => history_table.rows = pressed_log
    /\ ran => (history_table.shown <=> pressed_log # <<>>)

\* Two saves with the same content, followed by a run without a save.
C2_Witness ==
    /\ Len(pressed_log) = 2
    /\ pressed_log[1] = pressed_log[2]
    /\ ~save_pressed
    /\ history_table.rows = <<pressed_log[1], pressed_log[1]>>

\* C3: the history is append-only across reruns: a session without a
\* history has the empty one, a run never takes the history away, and the
\* history before a run is a prefix of the history after it.
C3_AppendOnly ==
    [][ /\ ~has_history => history = <<>>
        /\ has_history'
        /\ IsPrefix(history, history')
      ]_vars

\* Two different entries are in the history after a run that saved nothing.
C3_Witness ==
    /\ has_history
    /\ Len(history) = 2
    /\ history[1] # history[2]
    /\ ~save_pressed

\* C9: a run in which Save Recommendation is not pressed leaves the history
\* as it was; a run in which it is pressed appends exactly one entry, made
\* of that run's product name, category, final price and profit margin
\* (both rounded to 2 decimals), and the history table of the run shows the
\* history with that entry.
C9_SaveOnly ==
    [][ /\ ~save_pressed' => history' = history
        /\ save_pressed' =>
              history' = Append(history,
                                [Product |-> product_name',
                                 Category |-> category',
                                 FinalPrice |-> PyRound2(final_price'),
                                 ProfitMargin |-> PyRound2(profit_margin')])
        /\ history_table'.rows = history'
      ]_vars

\* The run of a save under the Clearance Sale preset: the table shows the
\* entry of that run, 133.06 at a margin of 24.84 percent.
C9_Witness ==
    /\ save_pressed
    /\ scenario = "Clearance Sale"
    /\ category = "Essentials"
    /\ product_name = "Widget"
    /\ Len(history) = 1
    /\ history_table.shown
    /\ history_table.rows[1].Product = "Widget"
    /\ history_table.rows[1].FinalPrice = PyRound2(final_price)

(***************************************************************************)
(* Properties of the margin's conditional expression (SpecMargin)          *)
(***************************************************************************)
\* C5: when final_price <= 0 the margin is exactly 0 and the division is
\* not evaluated; when final_price > 0 the margin is
\* (profit / final_price) * 100, not clamped: negative when
\* cost_price > final_price.
C5_MarginGuard ==
    margin_branch # "none" =>
        /\ profit = FSub(final_price, cost_price)
        /\ FLe(final_price, FZero) =>
              /\ margin_branch = "zero"
              /\ profit_margin = FZero
        /\ FLt(FZero, final_price) =>
              /\ margin_branch = "divide"
              /\ profit_margin = FMul(FDiv(profit, final_price), Hundred)
              /\ FLt(final_price, cost_price) => FLt(profit_margin, FZero)

\* The margin has been computed for a final price of exactly 0.
C5_Witness ==
    /\ margin_branch = "zero"
    /\ final_price = FZero
    /\ cost_price = FromInt(50)
    /\ profit = FNeg(FromInt(50))
    /\ profit_margin = FZero

====
